---- MODULE Spec2Model ----
(***************************************************************************)
(* A model of the podcast dashboard pipeline: the two chart fetchers, the  *)
(* chart store writer, the title resolver and the detail store writer.     *)
(* Strings that the code inspects character by character are sequences of  *)
(* one-character strings; Python's None and SQL NULL are NULL.             *)
(***************************************************************************)
EXTENDS Integers, Sequences, FiniteSets, TLC

NULL == "NULL"
\* None where the other values are integers (a missing id, a NULL INTEGER column)
NoInt == 0

(***************************************************************************)
(* Bounds of the model.                                                    *)
(***************************************************************************)
MaxBatch == 2
MaxCats == 2
MaxRuns == 2
MaxItems == 3
MaxLimit == 3
MaxCands == 2        \* items of a search response
MaxViews == 3        \* entries of QUERY_CONFIGS
MaxEpisodes == 3     \* items of an episodes response
MaxRows == 1         \* rows a view returns

(***************************************************************************)
(* Program constants.                                                      *)
(***************************************************************************)
PLATFORM_NAME_APPLE == "Apple"
PLATFORM_NAME_SPOTIFY == "Spotify"
SPOTIFY_LIMIT == 100

VARIABLES
    top100,             \* rows of Top100Lists (committed)
    saveResult,         \* outcome of the last save_chart_data_to_db call
    podcasts,           \* rows of Podcasts (committed)
    categories,         \* rows of Categories (committed)
    podcastCategories,  \* rows of PodcastCategories (committed)
    pc,                 \* "idle", or "loop" inside update_all_podcast_details
    pending,            \* titles of the running update still to be processed
    lastIter,           \* what the last iteration of the title loop did
    runLog,             \* what the running update has read, taken and committed
    startup,            \* the environment of update_podcast_details.py and its last startup
    runs,               \* component runs started so far, where a specification counts them
    fetchOut,           \* the last chart fetch: its response, limit and return value
    search,             \* the running search_podcast_combined call and its last request
    publish,            \* update_multiple_google_sheets: position, and what it did per view
    tabs,               \* the tabs of the spreadsheet: "absent", "old", "empty" or "written"
    viewCalls,          \* the calls update_multiple_google_sheets made for the last view
    episodeCall,        \* the last get_latest_episode_info call of its own: response, result
    detailCall          \* the detail requests of the last iteration that spelled them out

chartVars == <<top100, saveResult>>
detailVars == <<podcasts, categories, podcastCategories, pc, pending, lastIter, runLog,
                startup>>
searchVars == <<search>>
fetchVars == <<fetchOut>>
sheetVars == <<publish, tabs, viewCalls>>
episodeVars == <<episodeCall>>
requestVars == <<detailCall>>
vars == <<top100, saveResult, podcasts, categories, podcastCategories, pc, pending,
          lastIter, runLog, startup, runs, fetchOut, search, publish, tabs, episodeCall,
          detailCall, viewCalls>>

(***************************************************************************)
(* Chart store writer: save_chart_data_to_db.                              *)
(***************************************************************************)
Today == "d1"
ChartTitles == {"t1", "t2"}
ChartPodcastId(t) == IF t = "t2" THEN "p2" ELSE "p1"

RequiredKeys == {"platform", "rank", "date"}

\* a record as a fetcher builds it: all five keys
ChartRecord(p, k, t) ==
    [platform |-> p, rank |-> k, title |-> t,
     platform_podcast_id |-> ChartPodcastId(t), date |-> Today]

Without(r, key) == [x \in (DOMAIN r) \ {key} |-> r[x]]

\* what a writer may find at position k of a batch for platform p: a record
\* of a rank up to k, or one lacking a required key
BatchRecords(p, k) ==
    {ChartRecord(p, j, t) : j \in 1..k, t \in ChartTitles}
    \cup {Without(ChartRecord(p, k, "t1"), key) : key \in RequiredKeys}

RECURSIVE BatchesOfLen(_, _)
BatchesOfLen(p, n) ==
    IF n = 0 THEN {<<>>}
    ELSE {Append(s, x) : s \in BatchesOfLen(p, n - 1), x \in BatchRecords(p, n)}

Batches(p) == UNION {BatchesOfLen(p, n) : n \in 0..MaxBatch}
AppleBatches == Batches(PLATFORM_NAME_APPLE)
SpotifyBatches == Batches(PLATFORM_NAME_SPOTIFY)

HasRequiredKeys(r) == RequiredKeys \subseteq DOMAIN r

\* mutant: UNIQUE(rank, date), the platform left out of the constraint
SameRankDate(row, r) ==
    /\ row.rank = r.rank
    /\ row.date = r.date

SameTriple(row, r) ==
    /\ row.platform = r.platform
    /\ row.rank = r.rank
    /\ row.date = r.date

\* mutants of the insert: no UNIQUE constraint; INSERT OR REPLACE
InsertChartNoUnique(rows, r) ==
    rows \cup {[platform |-> r.platform, rank |-> r.rank, title |-> r.title,
                platform_podcast_id |-> r.platform_podcast_id, date |-> r.date]}

InsertOrReplaceChart(rows, r) ==
    {row \in rows : ~SameTriple(row, r)}
    \cup {[platform |-> r.platform, rank |-> r.rank, title |-> r.title,
            platform_podcast_id |-> r.platform_podcast_id, date |-> r.date]}

\* INSERT OR IGNORE under UNIQUE(platform, rank, date)
InsertOrIgnoreChart(rows, r) ==
    IF \E row \in rows : SameTriple(row, r)
    THEN rows
    ELSE rows \cup {[platform |-> r.platform, rank |-> r.rank, title |-> r.title,
                     platform_podcast_id |-> r.platform_podcast_id, date |-> r.date]}

\* the for loop over the records, from position i on
RECURSIVE SaveLoop(_, _, _)
SaveLoop(records, i, acc) ==
    IF i > Len(records) THEN acc
    ELSE LET r == records[i]
         IN  IF ~HasRequiredKeys(r)
             THEN SaveLoop(records, i + 1, acc)
             ELSE LET after == InsertOrIgnoreChart(acc.rows, r)
                  IN  IF after # acc.rows
                      THEN SaveLoop(records, i + 1,
                               [acc EXCEPT !.rows = after, !.insert_count = @ + 1])
                      ELSE SaveLoop(records, i + 1,
                               [acc EXCEPT !.ignore_count = @ + 1])

\* the whole function: what is committed and how the call ends
save_chart_data_to_db(rows, records) ==
    IF records = <<>>
    THEN [rows |-> rows, status |-> "returned", insert_count |-> 0, ignore_count |-> 0]
    ELSE IF "platform" \notin DOMAIN records[1]
    THEN \* records[0]['platform'] raises KeyError, which no handler catches:
         \* the connection is closed without a commit
         [rows |-> rows, status |-> "raised", insert_count |-> 0, ignore_count |-> 0]
    ELSE LET acc == SaveLoop(records, 1,
                        [rows |-> rows, insert_count |-> 0, ignore_count |-> 0])
         IN  [rows |-> acc.rows, status |-> "returned",
              insert_count |-> acc.insert_count, ignore_count |-> acc.ignore_count]

NumWithKeys(records) == Cardinality({i \in 1..Len(records) : HasRequiredKeys(records[i])})

SaveCall(writer, records) ==
    LET out == save_chart_data_to_db(top100, records)
    IN  /\ top100' = out.rows
        /\ saveResult' = [writer |-> writer, status |-> out.status,
                          insert_count |-> out.insert_count,
                          ignore_count |-> out.ignore_count,
                          with_keys |-> NumWithKeys(records),
                          first_has_platform |->
                              (records # <<>> /\ "platform" \in DOMAIN records[1])]

AppleSave ==
    /\ pc = "idle"
    /\ \E records \in AppleBatches : SaveCall("apple", records)
    /\ UNCHANGED <<detailVars, fetchVars, searchVars, sheetVars, episodeVars, requestVars>>

SpotifySave ==
    /\ pc = "idle"
    /\ \E records \in SpotifyBatches : SaveCall("spotify", records)
    /\ UNCHANGED <<detailVars, fetchVars, searchVars, sheetVars, episodeVars, requestVars>>

NoSave == [writer |-> "none", status |-> "none", insert_count |-> 0, ignore_count |-> 0,
           with_keys |-> 0, first_has_platform |-> FALSE]

(***************************************************************************)
(* Text helpers: Python's str.strip and int() on sequences of characters.  *)
(***************************************************************************)
Whitespace == {" "}

RECURSIVE LStrip(_)
LStrip(s) == IF s # <<>> /\ Head(s) \in Whitespace THEN LStrip(Tail(s)) ELSE s

RECURSIVE RStrip(_)
RStrip(s) ==
    IF s # <<>> /\ s[Len(s)] \in Whitespace THEN RStrip(SubSeq(s, 1, Len(s) - 1)) ELSE s

Strip(s) == RStrip(LStrip(s))

DigitValue(c) ==
    CASE c = "0" -> 0 [] c = "1" -> 1 [] c = "2" -> 2 [] c = "3" -> 3 [] c = "4" -> 4
      [] c = "5" -> 5 [] c = "6" -> 6 [] c = "7" -> 7 [] c = "8" -> 8 [] c = "9" -> 9
      [] OTHER -> -1

RECURSIVE DigitsValue(_, _)
DigitsValue(s, acc) ==
    IF s = <<>> THEN acc ELSE DigitsValue(Tail(s), 10 * acc + DigitValue(Head(s)))

\* int(cat_id_str): [ok |-> FALSE] stands for ValueError
ParseInt(str) ==
    LET t == Strip(str)
        signed == t # <<>> /\ Head(t) \in {"+", "-"}
        digits == IF signed THEN Tail(t) ELSE t
    IN  IF digits = <<>> \/ \E i \in 1..Len(digits) : DigitValue(digits[i]) < 0
        THEN [ok |-> FALSE, value |-> 0]
        ELSE [ok |-> TRUE,
              value |-> IF signed /\ Head(t) = "-" THEN 0 - DigitsValue(digits, 0)
                        ELSE DigitsValue(digits, 0)]

\* exception classes and the classes each except clause catches
Subclasses(handler) ==
    CASE handler = "Timeout" -> {"Timeout"}
      [] handler = "HTTPError" -> {"HTTPError"}
      [] handler = "RequestException" -> {"Timeout", "ConnectionError", "HTTPError"}
      [] handler = "JSONDecodeError" -> {"JSONDecodeError"}
      [] handler = "Exception" ->
             {"Timeout", "ConnectionError", "HTTPError", "JSONDecodeError",
              "AttributeError", "TypeError"}

(***************************************************************************)
(* Episode fetch: get_latest_episode_info.                                 *)
(***************************************************************************)
\* the "duration" of an episode: integers, a float, a text, or none
IntDurations == {100, 200, 201, 0, -5}

Durations ==
    [kind : {"int"}, value : IntDurations]
    \cup {[kind |-> "float", value |-> 100], [kind |-> "str", value |-> 100],
          [kind |-> "none", value |-> 0]}

Episodes == [duration : Durations, title : {"e1", NULL}]

RECURSIVE EpisodeSeqs(_)
EpisodeSeqs(n) ==
    IF n = 0 THEN {<<>>}
    ELSE LET shorter == EpisodeSeqs(n - 1)
         IN  shorter \cup {Append(q, e) : q \in {x \in shorter : Len(x) = n - 1},
                                          e \in Episodes}

EpisodeFailures == {"Timeout", "HTTPError", "ConnectionError", "JSONDecodeError"}

\* a response of episodes/byfeedid: a failure of the request or of the parse,
\* or the items of the body (none when "items" is missing or empty)
EpisodeResponse(kind, items) == [kind |-> kind, items |-> items]

EpisodeResponses ==
    {EpisodeResponse(kind, <<>>) : kind \in EpisodeFailures}
    \cup {EpisodeResponse("ok", items) : items \in EpisodeSeqs(MaxEpisodes)}

\* mutant: every integer duration counts
IsInt(duration) == duration.kind = "int"

\* duration and isinstance(duration, int) and duration > 0
IsPositiveInt(duration) ==
    /\ duration.kind # "none"
    /\ duration.value # 0
    /\ duration.kind = "int"
    /\ duration.value > 0

\* the loop over items, from item i on
RECURSIVE DurationLoop(_, _, _, _)
DurationLoop(items, i, total_duration, valid_episode_count) ==
    IF i > Len(items)
    THEN [total_duration |-> total_duration, valid_episode_count |-> valid_episode_count]
    ELSE IF IsPositiveInt(items[i].duration)
    THEN DurationLoop(items, i + 1, total_duration + items[i].duration.value,
                      valid_episode_count + 1)
    ELSE DurationLoop(items, i + 1, total_duration, valid_episode_count)

NoEpisodeInfo == <<NoInt, NULL>>    \* (None, None)

\* the try body: (average_duration, latest_episode_title), or an exception
EpisodeBody(response) ==
    IF response.kind # "ok" THEN [exc |-> response.kind, info |-> NoEpisodeInfo]
    ELSE IF response.items = <<>> THEN [exc |-> "none", info |-> NoEpisodeInfo]
    ELSE LET sums == DurationLoop(response.items, 1, 0, 0)
             average_duration ==
                 IF sums.valid_episode_count > 0
                 THEN sums.total_duration \div sums.valid_episode_count
                 ELSE NoInt
         IN  [exc |-> "none", info |-> <<average_duration, response.items[1].title>>]

\* mutant: the request is not inside a try
EpisodeHandlersNone == {}

EpisodeHandlers ==
    {"Timeout", "HTTPError", "RequestException", "JSONDecodeError", "Exception"}

\* every handler logs and falls through to `return None, None`
get_latest_episode_info(response) ==
    LET body == EpisodeBody(response)
    IN  IF body.exc = "none" THEN [raised |-> FALSE, info |-> body.info]
        ELSE [raised |-> ~(\E h \in EpisodeHandlers : body.exc \in Subclasses(h)),
              info |-> NoEpisodeInfo]

NoEpisodeCall ==
    [response |-> EpisodeResponse("none", <<>>), done |-> FALSE, raised |-> FALSE,
     info |-> NoEpisodeInfo]

EpisodeCalls == {[NoEpisodeCall EXCEPT !.response = r] : r \in EpisodeResponses}

\* one call of get_latest_episode_info
EpisodeFetch ==
    /\ episodeCall.response.kind # "none"
    /\ ~episodeCall.done
    /\ LET out == get_latest_episode_info(episodeCall.response)
       IN  episodeCall' = [episodeCall EXCEPT !.done = TRUE, !.raised = out.raised,
                                              !.info = out.info]
    /\ UNCHANGED <<chartVars, detailVars, fetchVars, searchVars, sheetVars, requestVars>>

(***************************************************************************)
(* Detail store writer: update_all_podcast_details.                        *)
(***************************************************************************)
PodcastIds == {1, 2}

\* entries of a category map {category_id_string: category_name}
CatEntries ==
    { << <<"1">>, "A" >>, << <<"2">>, "A" >>, << <<"2">>, "B" >>, << <<"x">>, "B" >> }

DistinctKeys(m) == \A i, j \in 1..Len(m) : i # j => m[i][1] # m[j][1]

RECURSIVE EntrySeqs(_)
EntrySeqs(n) ==
    IF n = 0 THEN {<<>>}
    ELSE LET shorter == EntrySeqs(n - 1)
         IN  shorter \cup {Append(m, e) : m \in {q \in shorter : Len(q) = n - 1},
                                          e \in CatEntries}

\* the maps in the order their entries are iterated; the empty map also stands
\* for a feed whose "categories" is missing, null or not a dict
CatMaps == {m \in EntrySeqs(MaxCats) : DistinctKeys(m)}

\* what search_podcast_combined may hand back: a candidate with or without an
\* id and with or without a feed url (url or originalUrl)
Candidates == [id : PodcastIds \cup {NoInt}, url : {"u", NULL}]

\* a "feed" id that is text and not a number: INTEGER PRIMARY KEY refuses it
\* with "datatype mismatch", an sqlite3.IntegrityError
TextId == -1

\* the "feed" object of a podcasts/byfeedid or podcasts/byfeedurl response for a
\* candidate with this id (any id when the candidate has none); the feed may
\* lack its own id or its categories, or carry an id the store refuses
FeedObjects(cand_id) ==
    [id : IF cand_id = NoInt THEN PodcastIds ELSE {cand_id}, categories : CatMaps]
    \cup {[id |-> NoInt, categories |-> <<>>]}
    \cup {[id |-> TextId, categories |-> << << <<"1">>, "A" >> >>]}

\* the episodes responses the title loop meets: every failure, no episodes,
\* and episodes with durations 100, 0 and 200
LoopEpisodeResponses ==
    {EpisodeResponse(kind, <<>>) : kind \in EpisodeFailures \cup {"ok"}}
    \cup {EpisodeResponse("ok",
              << [duration |-> [kind |-> "int", value |-> 100], title |-> "e1"],
                 [duration |-> [kind |-> "int", value |-> 0], title |-> "e1"],
                 [duration |-> [kind |-> "int", value |-> 200], title |-> "e1"] >>)}

\* how an episodes response went, for the record of the iteration
EpisodesOutcome(response) ==
    IF response.kind # "ok" THEN response.kind
    ELSE IF response.items = <<>> THEN "no_items" ELSE "ok"

\* SELECT DISTINCT title FROM Top100Lists WHERE title IS NOT NULL AND title != ''
SelectTitles(rows) == {r.title : r \in {x \in rows : x.title # NULL /\ x.title # ""}}

\* INSERT OR REPLACE INTO Podcasts: the row with the same primary key is
\* deleted first, and ON DELETE CASCADE takes its links with it
InsertOrReplacePodcast(db, row) ==
    LET hit == {p \in db.podcasts : p.podcast_id = row.podcast_id}
    IN  [db EXCEPT !.podcasts = (@ \ hit) \cup {row},
                   !.links = IF hit = {} THEN @
                             ELSE {l \in @ : l.podcast_id # row.podcast_id}]

\* DELETE FROM PodcastCategories WHERE podcast_id = ?
DeleteLinks(db, feed_id) ==
    [db EXCEPT !.links = {l \in @ : l.podcast_id # feed_id}]

\* mutant: INSERT OR REPLACE INTO Categories
InsertOrReplaceCategory(db, cat_id, cat_name) ==
    [db EXCEPT !.categories =
        {c \in @ : c.category_id # cat_id /\ c.category_name # cat_name}
            \cup {[category_id |-> cat_id, category_name |-> cat_name]}]

\* INSERT OR IGNORE INTO Categories: PRIMARY KEY category_id, UNIQUE category_name
InsertOrIgnoreCategory(db, cat_id, cat_name) ==
    IF \E c \in db.categories : c.category_id = cat_id \/ c.category_name = cat_name
    THEN db
    ELSE [db EXCEPT !.categories =
                        @ \cup {[category_id |-> cat_id, category_name |-> cat_name]}]

\* mutant: PRAGMA foreign_keys left off
ForeignKeysUnchecked(db, podcast_id, cat_id) == TRUE

\* the foreign keys of a PodcastCategories row
ForeignKeysHold(db, podcast_id, cat_id) ==
    /\ \E p \in db.podcasts : p.podcast_id = podcast_id
    /\ \E c \in db.categories : c.category_id = cat_id

\* the loop over categories_dict.items(), from entry i on; errs counts
\* category_link_errors
RECURSIVE CategoryLoop(_, _, _, _, _)
CategoryLoop(db, feed_id, cats, i, errs) ==
    IF i > Len(cats) THEN [db |-> db, errs |-> errs]
    ELSE LET cat_id_str == cats[i][1]
             cat_name == cats[i][2]
             parsed == ParseInt(cat_id_str)
         IN  IF cat_id_str = <<>> \/ cat_name = ""
             THEN CategoryLoop(db, feed_id, cats, i + 1, errs)
             ELSE IF ~parsed.ok
             THEN CategoryLoop(db, feed_id, cats, i + 1, errs + 1)
             ELSE LET db1 == InsertOrIgnoreCategory(db, parsed.value, cat_name)
                  IN  IF ForeignKeysHold(db1, feed_id, parsed.value)
                      THEN CategoryLoop(
                               [db1 EXCEPT !.links = @ \cup
                                   {[podcast_id |-> feed_id, category_id |-> parsed.value]}],
                               feed_id, cats, i + 1, errs)
                      ELSE \* FOREIGN KEY constraint failed: caught per entry
                           CategoryLoop(db1, feed_id, cats, i + 1, errs + 1)

\* the writes of one podcast, committed together
WritePodcast(db, feed_id, categories_dict, info) ==
    LET row == [podcast_id |-> feed_id, avg_duration_last_10 |-> info[1],
                latest_episode_title |-> info[2]]
        db1 == DeleteLinks(InsertOrReplacePodcast(db, row), feed_id)
    IN  IF categories_dict # <<>>
        THEN CategoryLoop(db1, feed_id, categories_dict, 1, 0)
        ELSE [db |-> db1, errs |-> 0]

Store == [podcasts |-> podcasts, categories |-> categories, links |-> podcastCategories]

LinkedCategories(links, podcast_id) ==
    {l.category_id : l \in {x \in links : x.podcast_id = podcast_id}}

\* the category ids of the entries of a map that have a key, a name and an
\* integer key
WellFormedIds(categories_dict) ==
    {ParseInt(categories_dict[i][1]).value :
        i \in {j \in 1..Len(categories_dict) :
                 /\ categories_dict[j][1] # <<>>
                 /\ categories_dict[j][2] # ""
                 /\ ParseInt(categories_dict[j][1]).ok}}

\* the INSERT OR REPLACE INTO Podcasts raises sqlite3.Error
UpsertRaises(feed_id) == feed_id = TextId

\* the pauses of the loop, in tenths of a second
SLEEP_NO_CANDIDATE == 10
SLEEP_BETWEEN_PODCASTS == 15

\* the entries of a map that have a key and a name but whose key int() refuses
MalformedEntries(categories_dict) ==
    {j \in 1..Len(categories_dict) :
        /\ categories_dict[j][1] # <<>>
        /\ categories_dict[j][2] # ""
        /\ ~ParseInt(categories_dict[j][1]).ok}

NoIter == [outcome |-> "none", title |-> NULL, podcast_id |-> NoInt, new_cats |-> {},
           had_links |-> FALSE, old_cats |-> {},
           update_errors |-> 0, category_link_errors |-> 0, sleep |-> 0,
           episodes |-> "none", malformed |-> 0]

\* the titles the running update read, the titles its loop has taken so far
\* with what became of each, in order, and the podcast ids it has committed
NoLog == [titles |-> {}, processed |-> <<>>, committed |-> {}]

\* the values os.environ.get may give for a key: unset, empty, set
EnvValues == {NULL, "", "k"}

Environs == [PODCASTINDEX_API_KEY : EnvValues, PODCASTINDEX_API_SECRET : EnvValues]

\* both keys set, the module not yet loaded
KeysSet == [PODCASTINDEX_API_KEY |-> "k", PODCASTINDEX_API_SECRET |-> "k",
            status |-> "none"]

API_KEY == startup.PODCASTINDEX_API_KEY
API_SECRET == startup.PODCASTINDEX_API_SECRET

\* mutant: the keys are not looked at
StartupUnchecked == TRUE

\* the module level passes `if not API_KEY or not API_SECRET: exit(1)`
StartupPasses == API_KEY \notin {NULL, ""} /\ API_SECRET \notin {NULL, ""}

\* the environment of the next run is set while no run is in progress
SetEnviron ==
    /\ pc = "idle"
    /\ \E env \in Environs :
         startup' = [PODCASTINDEX_API_KEY |-> env.PODCASTINDEX_API_KEY,
                     PODCASTINDEX_API_SECRET |-> env.PODCASTINDEX_API_SECRET,
                     status |-> "none"]
    /\ startup' # startup
    /\ UNCHANGED <<podcasts, categories, podcastCategories, pc, pending, lastIter, runLog>>
    /\ UNCHANGED <<chartVars, fetchVars, searchVars, sheetVars, episodeVars, requestVars>>

\* a key is missing: the module logs the error and exits with status 1
\* before update_all_podcast_details is defined or called
StartupFails ==
    /\ pc = "idle"
    /\ ~StartupPasses
    /\ startup' = [startup EXCEPT !.status = "exit_1"]
    /\ UNCHANGED <<podcasts, categories, podcastCategories, pc, pending, lastIter, runLog>>
    /\ UNCHANGED <<chartVars, fetchVars, searchVars, sheetVars, episodeVars, requestVars>>

\* mutant: the two tables survive the start of a run
UpdateBeginKeepsTables ==
    /\ pc = "idle"
    /\ StartupPasses
    /\ startup' = [startup EXCEPT !.status = "passed"]
    /\ pending' = SelectTitles(top100)
    /\ pc' = IF SelectTitles(top100) = {} THEN "idle" ELSE "loop"
    /\ lastIter' = NoIter
    /\ runLog' = [NoLog EXCEPT !.titles = SelectTitles(top100)]
    /\ UNCHANGED <<chartVars, podcasts, podcastCategories, categories, fetchVars,
                   searchVars, sheetVars, episodeVars, requestVars>>

\* phases 1 and 2: drop and recreate Podcasts and PodcastCategories, read the titles
UpdateBegin ==
    /\ pc = "idle"
    /\ StartupPasses
    /\ startup' = [startup EXCEPT !.status = "passed"]
    /\ podcasts' = {}
    /\ podcastCategories' = {}
    /\ pending' = SelectTitles(top100)
    /\ pc' = IF SelectTitles(top100) = {} THEN "idle" ELSE "loop"
    /\ lastIter' = NoIter
    /\ runLog' = [NoLog EXCEPT !.titles = SelectTitles(top100)]
    /\ UNCHANGED <<chartVars, categories, fetchVars, searchVars, sheetVars, episodeVars,
                   requestVars>>

\* mutant: the loop does not advance
EndIterationSameTitle(title, outcome, ids) ==
    /\ pending' = pending
    /\ pc' = "loop"
    /\ runLog' = [runLog EXCEPT !.processed =
                                    Append(@, [title |-> title, outcome |-> outcome]),
                                !.committed = @ \cup ids]
    /\ UNCHANGED <<startup, chartVars, fetchVars, searchVars, sheetVars, episodeVars>>

\* the iteration ends: the next title, or the function returns; ids holds the
\* podcast id the iteration committed, if any
EndIteration(title, outcome, ids) ==
    /\ pending' = pending \ {title}
    /\ pc' = IF pending = {title} THEN "idle" ELSE "loop"
    /\ runLog' = [runLog EXCEPT !.processed =
                                    Append(@, [title |-> title, outcome |-> outcome]),
                                !.committed = @ \cup ids]
    /\ UNCHANGED <<startup, chartVars, fetchVars, searchVars, sheetVars, episodeVars>>

\* an iteration that writes nothing; sleep is the pause it ends with
SkipTitle(title, outcome, sleep) ==
    /\ lastIter' = [NoIter EXCEPT !.outcome = outcome, !.title = title, !.sleep = sleep]
    /\ UNCHANGED <<podcasts, categories, podcastCategories>>
    /\ EndIteration(title, outcome, {})

\* an exception other than sqlite3.Error leaves the loop: the outer handler
\* logs it and the function ends with the titles that are left untaken
AbortRun(title, full_details, episodes) ==
    /\ lastIter' = [NoIter EXCEPT !.outcome = "aborted", !.title = title,
                                  !.podcast_id = full_details.id,
                                  !.episodes = episodes]
    /\ UNCHANGED <<podcasts, categories, podcastCategories>>
    /\ pending' = {}
    /\ pc' = "idle"
    /\ runLog' = [runLog EXCEPT !.processed =
                                    Append(@, [title |-> title, outcome |-> "aborted"])]
    /\ UNCHANGED <<startup, chartVars, fetchVars, searchVars, sheetVars, episodeVars>>

\* except sqlite3.Error: update_errors += 1, conn.rollback(), then the pause
RollBack(title, full_details, episodes) ==
    /\ lastIter' = [NoIter EXCEPT !.outcome = "rolled_back", !.title = title,
                                  !.podcast_id = full_details.id,
                                  !.new_cats = WellFormedIds(full_details.categories),
                                  !.update_errors = 1,
                                  !.episodes = episodes,
                                  !.sleep = SLEEP_BETWEEN_PODCASTS]
    /\ UNCHANGED <<podcasts, categories, podcastCategories>>
    /\ EndIteration(title, "rolled_back", {})

StoreDetails(title, full_details) ==
    IF full_details.id = NoInt
    THEN \* continue, past the pause at the end of the loop body
         SkipTitle(title, "no_id", 0)
    ELSE \E response \in LoopEpisodeResponses :
           LET fetched == get_latest_episode_info(response)
               episodes == EpisodesOutcome(response)
               out == WritePodcast(Store, full_details.id, full_details.categories,
                                   fetched.info)
           IN  IF fetched.raised
               THEN AbortRun(title, full_details, episodes)
               ELSE IF UpsertRaises(full_details.id)
               THEN RollBack(title, full_details, episodes)
               ELSE /\ podcasts' = out.db.podcasts
                    /\ categories' = out.db.categories
                    /\ podcastCategories' = out.db.links
                    /\ lastIter' =
                         [outcome |-> "committed",
                          title |-> title,
                          podcast_id |-> full_details.id,
                          new_cats |-> WellFormedIds(full_details.categories),
                          had_links |->
                              (LinkedCategories(podcastCategories, full_details.id) # {}),
                          old_cats |-> LinkedCategories(podcastCategories, full_details.id),
                          update_errors |-> 0,
                          category_link_errors |-> out.errs,
                          sleep |-> SLEEP_BETWEEN_PODCASTS,
                          episodes |-> episodes,
                          malformed |->
                              Cardinality(MalformedEntries(full_details.categories))]
                    /\ EndIteration(title, "committed", {full_details.id})

FetchByUrl(title, candidate) ==
    IF candidate.url = NULL
    THEN SkipTitle(title, "no_details", SLEEP_BETWEEN_PODCASTS)
    ELSE \/ SkipTitle(title, "no_details", SLEEP_BETWEEN_PODCASTS)
         \/ \E feed \in FeedObjects(candidate.id) : StoreDetails(title, feed)

\* one iteration of the title loop
ProcessTitle ==
    /\ pc = "loop"
    /\ UNCHANGED requestVars
    /\ \E title \in pending :
         \/ SkipTitle(title, "no_candidate", SLEEP_NO_CANDIDATE)
         \/ \E candidate \in Candidates :
              IF candidate.id = NoInt
              THEN FetchByUrl(title, candidate)
              ELSE \/ FetchByUrl(title, candidate)
                   \/ \E feed \in FeedObjects(candidate.id) : StoreDetails(title, feed)

\* get_full_podcast_details_by_feed_id and ..._by_feed_url return None
NoFeed == [none |-> TRUE]

\* a candidate as the detail requests see it: id, url and originalUrl, each
\* of which may be missing
ResolvedCandidates == [id : {1, NoInt}, url : {"u", NULL}, originalUrl : {"o", NULL}]

\* what a detail request for such a candidate may return: None, or a "feed"
\* (here one without categories)
DetailResponses(cand_id) ==
    {NoFeed} \cup {feed \in FeedObjects(cand_id) : feed.categories = <<>>}

\* candidate.get("url") or candidate.get("originalUrl")
FeedUrl(candidate) ==
    IF candidate.url \notin {NULL, ""} THEN candidate.url ELSE candidate.originalUrl

\* mutant: the feed url is tried whatever the request by id returned
FetchFullDetailsBoth(candidate, by_id, by_url) ==
    [calls |-> <<"podcasts/byfeedid", "podcasts/byfeedurl">>,
     url |-> FeedUrl(candidate),
     full_details |-> IF by_url # NoFeed THEN by_url ELSE by_id]

\* step 3b of the loop body: by_id and by_url are what the two requests would
\* return; calls are the requests made, in order, and url the value passed
\* to the request by feed url
FetchFullDetails(candidate, by_id, by_url) ==
    LET candidate_feed_id == candidate.id
        by_id_calls == IF candidate_feed_id # NoInt THEN <<"podcasts/byfeedid">> ELSE <<>>
        first == IF candidate_feed_id # NoInt THEN by_id ELSE NoFeed
        feed_url_from_candidate == FeedUrl(candidate)
    IN  IF first # NoFeed
        THEN [calls |-> by_id_calls, url |-> NULL, full_details |-> first]
        ELSE IF feed_url_from_candidate \notin {NULL, ""}
        THEN [calls |-> Append(by_id_calls, "podcasts/byfeedurl"),
              url |-> feed_url_from_candidate, full_details |-> by_url]
        ELSE [calls |-> by_id_calls, url |-> NULL, full_details |-> NoFeed]

NoDetailCall ==
    [title |-> NULL, candidate |-> [id |-> NoInt, url |-> NULL, originalUrl |-> NULL],
     by_id |-> NoFeed, by_url |-> NoFeed, calls |-> <<>>, url |-> NULL,
     full_details |-> NoFeed]

\* one iteration of the title loop for a title that search_podcast_combined
\* resolved, with its detail requests spelled out
ProcessCandidate ==
    /\ pc = "loop"
    /\ \E title \in pending, candidate \in ResolvedCandidates :
         \E by_id \in DetailResponses(candidate.id), by_url \in DetailResponses(candidate.id) :
            LET fetched == FetchFullDetails(candidate, by_id, by_url)
            IN  /\ detailCall' = [title |-> title, candidate |-> candidate,
                                  by_id |-> by_id, by_url |-> by_url,
                                  calls |-> fetched.calls, url |-> fetched.url,
                                  full_details |-> fetched.full_details]
                /\ IF fetched.full_details = NoFeed
                   THEN SkipTitle(title, "no_details", SLEEP_BETWEEN_PODCASTS)
                   ELSE StoreDetails(title, fetched.full_details)

(***************************************************************************)
(* Sheet publisher: update_multiple_google_sheets.  It only reads the      *)
(* store; what it changes is the tabs of the spreadsheet.                  *)
(***************************************************************************)
QUERY_CONFIGS ==
    SubSeq(<< [query |-> "vw_CurrentPodcastDetailsWithCategories",
               worksheet_name |-> "Top100List"],
              [query |-> "vw_NewEntries", worksheet_name |-> "NewEntries"],
              [query |-> "vw_PlatformOverlap", worksheet_name |-> "PlatformOverlap"],
              [query |-> "vw_RankChanges", worksheet_name |-> "RankChanges"],
              [query |-> "vw_TimeOnList", worksheet_name |-> "TimeOnList"] >>,
           1, MaxViews)

WorksheetNames == {QUERY_CONFIGS[i].worksheet_name : i \in 1..Len(QUERY_CONFIGS)}

\* the names the module binds by its import statements
ImportedNames ==
    {"sqlite3", "gspread", "Credentials", "pd", "os", "logging", "sys", "math", "datetime"}

\* the except clauses of the try inside the loop, in order: the name each
\* expression starts with, and the exceptions it matches
InnerClauses ==
    << [name |-> "sqlite3", matches |-> {"sqlite3.OperationalError"}],
       [name |-> "gspread", matches |-> {"gspread.APIError"}],
       [name |-> "requests", matches |-> {"requests.InvalidJSONError"}],
       [name |-> "Exception",
        matches |-> {"sqlite3.OperationalError", "gspread.APIError",
                     "requests.InvalidJSONError", "pandas.DatabaseError", "TypeError"}] >>

\* the clauses are evaluated in order until one matches; evaluating a clause
\* whose name is not bound raises NameError out of the try statement
RECURSIVE InnerHandled(_, _)
InnerHandled(exc, k) ==
    IF k > Len(InnerClauses) THEN [handled |-> FALSE, exc |-> exc]
    ELSE IF InnerClauses[k].name \notin ImportedNames \cup {"Exception"}
    THEN [handled |-> FALSE, exc |-> "NameError"]
    ELSE IF exc \in InnerClauses[k].matches
    THEN [handled |-> TRUE, exc |-> exc]
    ELSE InnerHandled(exc, k + 1)

\* what may go wrong while one view is handled: the statement and its exception
\* (a missing tab is not drawn here: it is read from the spreadsheet)
ViewFaults ==
    { [stage |-> "none", exc |-> "none"],
      \* pd.read_sql_query wraps a failed execute, such as a missing view
      [stage |-> "query", exc |-> "pandas.DatabaseError"],
      \* a failure while the rows are fetched is not wrapped
      [stage |-> "query", exc |-> "sqlite3.OperationalError"],
      [stage |-> "clear", exc |-> "gspread.APIError"],
      [stage |-> "update", exc |-> "gspread.APIError"],
      \* values the request body cannot carry, NaN or inf
      [stage |-> "update", exc |-> "requests.InvalidJSONError"],
      \* a cell value that is not serializable at all
      [stage |-> "update", exc |-> "TypeError"] }

\* mutant: a missing tab ends the loop
WorksheetNotFoundBreaks == "break"

\* except gspread.exceptions.WorksheetNotFound: ... continue
WorksheetNotFound == "continue"

\* the body of the loop for one config: what becomes of the tabs, what was
\* done for the view, and how the iteration ends ("next" for the end of the
\* body, "continue", "break", or "raise" out of the loop)
ViewBody(sheet, config, fault) ==
    LET name == config.worksheet_name
        entry == [worksheet_name |-> name, fault |-> fault, queried |-> TRUE,
                  found |-> FALSE, cleared |-> FALSE, written |-> FALSE]
        caught == IF InnerHandled(fault.exc, 1).handled THEN "next" ELSE "raise"
    IN  IF fault.stage = "query"
        THEN [tabs |-> sheet, entry |-> entry, ends |-> caught]
        ELSE IF sheet[name] = "absent"
        THEN [tabs |-> sheet, entry |-> entry, ends |-> WorksheetNotFound]
        ELSE IF fault.stage = "clear"
        THEN [tabs |-> sheet, entry |-> [entry EXCEPT !.found = TRUE],
              ends |-> caught]
        ELSE IF fault.stage = "update"
        THEN [tabs |-> [sheet EXCEPT ![name] = "empty"],
              entry |-> [entry EXCEPT !.found = TRUE, !.cleared = TRUE],
              ends |-> caught]
        ELSE [tabs |-> [sheet EXCEPT ![name] = "written"],
              entry |-> [entry EXCEPT !.found = TRUE, !.cleared = TRUE,
                                      !.written = TRUE],
              ends |-> "next"]

\* [df.columns.values.tolist()] + df.values.tolist(), for a result of n rows
DataToWrite(n) == <<"header">> \o [k \in 1..n |-> "row"]

\* mutant: the tab is cleared before the view is queried
ViewCallsClearFirst(sheet, config, fault, n) ==
    LET name == config.worksheet_name
        worksheet == [op |-> "worksheet", on |-> name, ok |-> sheet[name] # "absent",
                      values |-> <<>>]
        clear == [op |-> "clear", on |-> name, ok |-> fault.stage # "clear",
                  values |-> <<>>]
        query == [op |-> "read_sql_query", on |-> config.query,
                  ok |-> fault.stage # "query", values |-> <<>>]
        update == [op |-> "update", on |-> name, ok |-> fault.stage # "update",
                   values |-> DataToWrite(n)]
    IN  IF ~worksheet.ok THEN <<worksheet>>
        ELSE IF ~clear.ok THEN <<worksheet, clear>>
        ELSE IF ~query.ok THEN <<worksheet, clear, query>>
        ELSE <<worksheet, clear, query, update>>

\* the calls the body of the loop makes for one config whose query returns n
\* rows, in order, each with its target, whether it returned, and for the
\* update the values it sends
ViewCalls(sheet, config, fault, n) ==
    LET name == config.worksheet_name
        query == [op |-> "read_sql_query", on |-> config.query,
                  ok |-> fault.stage # "query", values |-> <<>>]
        worksheet == [op |-> "worksheet", on |-> name, ok |-> sheet[name] # "absent",
                      values |-> <<>>]
        clear == [op |-> "clear", on |-> name, ok |-> fault.stage # "clear",
                  values |-> <<>>]
        update == [op |-> "update", on |-> name, ok |-> fault.stage # "update",
                   values |-> DataToWrite(n)]
    IN  IF ~query.ok THEN <<query>>
        ELSE IF ~worksheet.ok THEN <<query, worksheet>>
        ELSE IF ~clear.ok THEN <<query, worksheet, clear>>
        ELSE <<query, worksheet, clear, update>>

NoViewCalls == [i |-> 0, rows |-> 0, before |-> "old", calls |-> <<>>]

NoPublish == [pc |-> "idle", i |-> 1, log |-> <<>>, ends |-> "none"]

\* authentication, gc.open_by_key and sqlite3.connect; a failure there is
\* logged by the outer handlers and the function ends
PublishBegin ==
    /\ publish.pc # "loop"
    /\ \/ publish' = [pc |-> "loop", i |-> 1, log |-> <<>>, ends |-> "none"]
       \/ publish' = [pc |-> "done", i |-> 1, log |-> <<>>, ends |-> "setup_error"]
    /\ viewCalls' = NoViewCalls
    /\ UNCHANGED <<tabs, chartVars, detailVars, fetchVars, searchVars, episodeVars,
                   requestVars>>

\* one iteration of the loop over query_configs
PublishView ==
    /\ publish.pc = "loop"
    /\ \E fault \in ViewFaults, n \in 0..MaxRows :
         LET config == QUERY_CONFIGS[publish.i]
             out == ViewBody(tabs, config, fault)
             last == publish.i = Len(QUERY_CONFIGS)
         IN  /\ tabs' = out.tabs
             /\ viewCalls' = [i |-> publish.i, rows |-> n,
                              before |-> tabs[config.worksheet_name],
                              calls |-> ViewCalls(tabs, config, fault, n)]
             /\ publish' =
                  [pc |-> IF out.ends \in {"raise", "break"} \/ last
                          THEN "done" ELSE "loop",
                   i |-> publish.i + 1,
                   log |-> Append(publish.log, out.entry),
                   ends |-> IF out.ends \in {"raise", "break"} THEN out.ends
                            ELSE IF last THEN "returned" ELSE "none"]
    /\ UNCHANGED <<chartVars, detailVars, fetchVars, searchVars, episodeVars, requestVars>>

(***************************************************************************)
(* Chart fetchers: scrape_apple_top_podcasts and scrape_spotify_top100.    *)
(* A response is its kind and, for a chart, its items.  A fetch evaluates  *)
(* the try body to records, an early return or an exception, and the       *)
(* except clauses decide what the caller sees.                             *)
(***************************************************************************)
NoText == <<NULL>>    \* None where the other values are character sequences

\* mutant: the slice forgotten
TakeAll(s, n) == s

Take(s, n) == SubSeq(s, 1, IF n < Len(s) THEN n ELSE Len(s))

\* mutant: no catch-all clause
FetcherHandlersNoCatchAll == {"Timeout", "RequestException", "JSONDecodeError"}

FetcherHandlers == {"Timeout", "RequestException", "JSONDecodeError", "Exception"}

\* try/except around a body: every handler returns []
Handled(body) ==
    IF body.exc = "none" THEN [raised |-> FALSE, records |-> body.records]
    ELSE IF \E h \in FetcherHandlers : body.exc \in Subclasses(h)
    THEN [raised |-> FALSE, records |-> <<>>]
    ELSE [raised |-> TRUE, records |-> <<>>]

Returns(records) == [exc |-> "none", records |-> records]
Raises(exc) == [exc |-> exc, records |-> <<>>]

\* requests.get, raise_for_status and response.json()
TransportOutcome(kind) ==
    CASE kind = "timeout" -> "Timeout"
      [] kind = "connection_error" -> "ConnectionError"
      [] kind = "http_error" -> "HTTPError"
      [] kind = "bad_json" -> "JSONDecodeError"
      [] OTHER -> "none"

AppleItems ==
    { [isdict |-> FALSE, name |-> NULL, id |-> NULL],
      [isdict |-> TRUE, name |-> "t1", id |-> "p1"],
      [isdict |-> TRUE, name |-> NULL, id |-> NULL] }

RECURSIVE ItemSeqs(_, _)
ItemSeqs(S, n) ==
    IF n = 0 THEN {<<>>}
    ELSE LET shorter == ItemSeqs(S, n - 1)
         IN  shorter \cup {Append(s, x) : s \in {q \in shorter : Len(q) = n - 1}, x \in S}

AppleFailures ==
    {"timeout", "connection_error", "http_error", "bad_json", "json_not_object",
     "no_feed", "feed_not_object", "no_results", "results_not_list"}

AppleResponses ==
    {[kind |-> k, items |-> <<>>] : k \in AppleFailures}
    \cup {[kind |-> "chart", items |-> items] : items \in ItemSeqs(AppleItems, MaxItems)}

\* for i, pod_data in enumerate(results[:limit])
RECURSIVE AppleLoop(_, _, _)
AppleLoop(items, i, records) ==
    IF i > Len(items) THEN records
    ELSE IF ~items[i].isdict
    THEN AppleLoop(items, i + 1, records)
    ELSE AppleLoop(items, i + 1,
             Append(records, [platform |-> PLATFORM_NAME_APPLE, rank |-> i,
                              title |-> items[i].name,
                              platform_podcast_id |-> items[i].id, date |-> Today]))

AppleBody(response, limit) ==
    IF TransportOutcome(response.kind) # "none" THEN Raises(TransportOutcome(response.kind))
    ELSE IF response.kind = "json_not_object" THEN Raises("AttributeError")
    ELSE IF response.kind \in {"no_feed", "feed_not_object"} THEN Returns(<<>>)
    ELSE IF response.kind \in {"no_results", "results_not_list"} \/ response.items = <<>>
    THEN Returns(<<>>)
    ELSE Returns(AppleLoop(Take(response.items, limit), 1, <<>>))

scrape_apple_top_podcasts(response, limit) == Handled(AppleBody(response, limit))

\* showUri: a string (its characters, ":" among them) or a number other than 0
SpotifyUris ==
    { [isstr |-> TRUE, text |-> <<"s", ":", "p">>],
      [isstr |-> TRUE, text |-> <<"p">>],
      [isstr |-> TRUE, text |-> <<>>],
      [isstr |-> FALSE, text |-> <<>>] }

SpotifyItems ==
    {[isdict |-> FALSE, showName |-> NULL, showUri |-> [isstr |-> TRUE, text |-> <<>>]]}
    \cup {[isdict |-> TRUE, showName |-> "t1", showUri |-> u] : u \in SpotifyUris}

SpotifyFailures == {"timeout", "connection_error", "http_error", "bad_json", "not_list"}

\* a chart longer than the fixed limit
LongChart ==
    [i \in 1..(SPOTIFY_LIMIT + 1) |->
        [isdict |-> TRUE, showName |-> "t1", showUri |-> [isstr |-> TRUE, text |-> <<"s", ":", "p">>]]]

SpotifyResponses ==
    {[kind |-> k, items |-> <<>>] : k \in SpotifyFailures}
    \cup {[kind |-> "chart", items |-> items] : items \in ItemSeqs(SpotifyItems, MaxItems)}
    \cup {[kind |-> "chart", items |-> LongChart]}

\* show_uri.split(":")[-1]
RECURSIVE LastSegment(_)
LastSegment(text) ==
    IF text = <<>> \/ text[Len(text)] = ":" THEN <<>>
    ELSE Append(LastSegment(SubSeq(text, 1, Len(text) - 1)), text[Len(text)])

HasColon(text) == \E i \in 1..Len(text) : text[i] = ":"

SpotifyRecord(items, i) ==
    LET show_uri == items[i].showUri.text
    IN  [platform |-> PLATFORM_NAME_SPOTIFY, rank |-> i, title |-> items[i].showName,
         platform_podcast_id |->
             IF show_uri # <<>> /\ HasColon(show_uri) THEN LastSegment(show_uri) ELSE NoText,
         date |-> Today]

\* mutant: the records built before the failing item are returned
SpotifyLoopPartial(items) ==
    LET dicts == {i \in 1..Len(items) : items[i].isdict}
        bad == {i \in dicts : ~items[i].showUri.isstr}
        good == {i \in dicts : \A b \in bad : i < b}
        kth(k) == CHOOSE i \in good : Cardinality({j \in good : j <= i}) = k
    IN  Returns([k \in 1..Cardinality(good) |-> SpotifyRecord(items, kth(k))])

\* for i, pod_data in enumerate(items[:100]): the items that are not dicts are
\* passed over; a showUri that is not a string makes ':' in show_uri raise
\* TypeError, which ends the loop.  The records are the dict items in order
\* (the k-th record is built from the k-th dict item).
SpotifyLoop(items) ==
    LET dicts == {i \in 1..Len(items) : items[i].isdict}
        kth(k) == CHOOSE i \in dicts : Cardinality({j \in dicts : j <= i}) = k
    IN  IF \E i \in dicts : ~items[i].showUri.isstr
        THEN Raises("TypeError")
        ELSE Returns([k \in 1..Cardinality(dicts) |-> SpotifyRecord(items, kth(k))])

SpotifyBody(response) ==
    IF TransportOutcome(response.kind) # "none" THEN Raises(TransportOutcome(response.kind))
    ELSE IF response.kind = "not_list" THEN Returns(<<>>)
    ELSE SpotifyLoop(Take(response.items, SPOTIFY_LIMIT))

scrape_spotify_top100(response) == Handled(SpotifyBody(response))

\* a call about to be made, and the call made
FetchCall(fetcher, response, limit) ==
    [fetcher |-> fetcher, kind |-> response.kind, items |-> response.items,
     limit |-> limit, done |-> FALSE, raised |-> FALSE, records |-> <<>>]

NoFetch == FetchCall("none", [kind |-> "none", items |-> <<>>], 0)

FetchCalls ==
    {FetchCall("apple", response, limit) : response \in AppleResponses, limit \in 0..MaxLimit}
    \cup {FetchCall("spotify", response, SPOTIFY_LIMIT) : response \in SpotifyResponses}

AppleFetch ==
    /\ fetchOut.fetcher = "apple" /\ ~fetchOut.done
    /\ LET out == scrape_apple_top_podcasts(fetchOut, fetchOut.limit)
       IN  fetchOut' = [fetchOut EXCEPT !.done = TRUE, !.raised = out.raised,
                                        !.records = out.records]
    /\ UNCHANGED <<chartVars, detailVars, searchVars, sheetVars, episodeVars, requestVars>>

SpotifyFetch ==
    /\ fetchOut.fetcher = "spotify" /\ ~fetchOut.done
    /\ LET out == scrape_spotify_top100(fetchOut)
       IN  fetchOut' = [fetchOut EXCEPT !.done = TRUE, !.raised = out.raised,
                                        !.records = out.records]
    /\ UNCHANGED <<chartVars, detailVars, searchVars, sheetVars, episodeVars, requestVars>>

(***************************************************************************)
(* Title resolver: search_byterm, search_bytitle, search_podcast_combined. *)
(* A title is a sequence of characters.  A key that is absent, null or "" *)
(* is the empty sequence: the code treats the three alike.                 *)
(***************************************************************************)
UpperCase ==
    <<"A", "B", "C", "D", "E", "F", "G", "H", "I", "J", "K", "L", "M",
      "N", "O", "P", "Q", "R", "S", "T", "U", "V", "W", "X", "Y", "Z">>
LowerCase ==
    <<"a", "b", "c", "d", "e", "f", "g", "h", "i", "j", "k", "l", "m",
      "n", "o", "p", "q", "r", "s", "t", "u", "v", "w", "x", "y", "z">>

\* str.lower()
Lower(s) ==
    [i \in 1..Len(s) |->
        IF \E k \in 1..Len(UpperCase) : UpperCase[k] = s[i]
        THEN LowerCase[CHOOSE k \in 1..Len(UpperCase) : UpperCase[k] = s[i]]
        ELSE s[i]]

\* SequenceMatcher.find_longest_match without junk: the longest common block,
\* the earliest in a among the longest, the earliest in b among those
CommonBlocks(a, b) ==
    {m \in (1..Len(a)) \X (1..Len(b)) \X (1..Len(a)) :
        /\ m[1] + m[3] - 1 <= Len(a)
        /\ m[2] + m[3] - 1 <= Len(b)
        /\ SubSeq(a, m[1], m[1] + m[3] - 1) = SubSeq(b, m[2], m[2] + m[3] - 1)}

LongestMatch(blocks) ==
    CHOOSE m \in blocks :
        \A n \in blocks :
            \/ m[3] > n[3]
            \/ m[3] = n[3] /\ m[1] < n[1]
            \/ m[3] = n[3] /\ m[1] = n[1] /\ m[2] <= n[2]

\* the total size of get_matching_blocks: the longest block, then the same to
\* its left and to its right
RECURSIVE Matches(_, _)
Matches(a, b) ==
    LET blocks == CommonBlocks(a, b)
        m == LongestMatch(blocks)
    IN  IF blocks = {} THEN 0
        ELSE m[3] + Matches(SubSeq(a, 1, m[1] - 1), SubSeq(b, 1, m[2] - 1))
                  + Matches(SubSeq(a, m[1] + m[3], Len(a)), SubSeq(b, m[2] + m[3], Len(b)))

Zero == [m |-> 0, t |-> 2]      \* best_ratio = 0
One == [m |-> 1, t |-> 2]       \* best_ratio = 1.0

\* mutant: a later candidate of equal ratio replaces the best one
GreaterOrEqual(r1, r2) == r1.m * r2.t >= r2.m * r1.t

\* ratio > best_ratio
Greater(r1, r2) == r1.m * r2.t > r2.m * r1.t

\* best_ratio >= SEARCH_ACCEPTANCE_THRESHOLD, the threshold in hundredths
SEARCH_ACCEPTANCE_THRESHOLD == 90
AtLeastThreshold(r) == 100 * 2 * r.m >= SEARCH_ACCEPTANCE_THRESHOLD * r.t

TheDaily == <<"T", "h", "e", " ", "D", "a", "i", "l", "y">>
TheDailyPadded == <<" ", "T", "H", "E", " ", "D", "A", "I", "L", "Y", " ">>
TheDailys == <<"T", "h", "e", " ", "D", "a", "i", "l", "y", "s">>
TheDailyz == <<"t", "h", "e", " ", "d", "a", "i", "l", "y", "z">>
TheDaisy == <<"t", "h", "e", " ", "d", "a", "i", "s", "y">>

\* the chart titles searched for
Queries == {<<" ">> \o TheDaily, TheDailys}

\* one item of "feeds" or "results"
Feed(id, title, title_original) ==
    [kind |-> "object", id |-> id, title |-> title, title_original |-> title_original]

\* None
NoCandidate == [kind |-> "none", id |-> NoInt, title |-> <<>>, title_original |-> <<>>]

\* the items a response may hold: candidates, one without a title, one whose
\* original title differs from its title, and an item that is not an object
FeedPool ==
    { Feed(1, TheDailyPadded, <<>>), Feed(2, TheDailys, <<>>), Feed(3, TheDailyz, <<>>),
      Feed(4, TheDaisy, <<>>), Feed(5, <<>>, <<>>), Feed(6, TheDaily, TheDaisy),
      [kind |-> "string", id |-> NoInt, title |-> <<>>, title_original |-> <<>>] }

FeedLists == UNION {ItemSeqs(FeedPool, n) : n \in 0..MaxCands}

SearchFailures == {"timeout", "connection_error", "http_error", "bad_json", "not_object"}

SearchResponse(kind, feeds, results) == [kind |-> kind, feeds |-> feeds, results |-> results]

\* the bodies search/byterm answers with: a failure, or an object with "feeds",
\* with "results", or with both; search/bytitle reads "feeds" alone
TermResponses ==
    {SearchResponse(k, <<>>, <<>>) : k \in SearchFailures}
    \cup {SearchResponse("ok", l, <<>>) : l \in FeedLists}
    \cup {SearchResponse("ok", <<>>, r) : r \in FeedLists}
    \cup {SearchResponse("ok", l, <<Feed(1, TheDailyPadded, <<>>)>>) : l \in ItemSeqs(FeedPool, 1)}

TitleResponses ==
    {SearchResponse(k, <<>>, <<>>) : k \in SearchFailures}
    \cup {SearchResponse("ok", l, <<>>) : l \in FeedLists}
    \cup {SearchResponse("ok", <<>>, <<Feed(1, TheDailyPadded, <<>>)>>)}

\* candidate_title: res.get("title_original", "") or res.get("title", "") in
\* search_byterm, feed.get("title", "") in search_bytitle
CandidateTitle(strategy, res) ==
    IF strategy = "byterm" /\ res.title_original # <<>> THEN res.title_original ELSE res.title

\* results: data.get("feeds") or data.get("results", []) in search_byterm,
\* data.get("feeds", []) in search_bytitle
Results(strategy, response) ==
    IF strategy = "byterm" /\ response.feeds = <<>> THEN response.results ELSE response.feeds

\* the texts the scans compare, and the matches of each pair computed once
ComparedQueries == {Lower(Strip(query)) : query \in Queries}
ComparedTitles ==
    {Lower(Strip(CandidateTitle(strategy, res))) :
        strategy \in {"byterm", "bytitle"}, res \in {f \in FeedPool : f.kind = "object"}}
MatchesOf == {<<p[1], p[2], Matches(p[1], p[2])>> : p \in ComparedQueries \X ComparedTitles}

\* SequenceMatcher(None, a, b).ratio() = 2.0 * matches / (len(a) + len(b)), kept
\* as the fraction 2m/t; the two texts are never both empty here
Ratio(a, b) ==
    [m |-> IF \E e \in MatchesOf : e[1] = a /\ e[2] = b
           THEN (CHOOSE e \in MatchesOf : e[1] = a /\ e[2] = b)[3]
           ELSE Matches(a, b),
     t |-> Len(a) + Len(b)]

NoBest == [match |-> NoCandidate, ratio |-> Zero, exc |-> "none"]

\* mutant: the exact match ends the scan without being recorded
ExactMatchNotRecorded(res, best) == best

\* best_match = res; best_ratio = 1.0; break
ExactMatch(res, best) == [match |-> res, ratio |-> One, exc |-> "none"]

\* for res in results: an item that is not an object has no .get
RECURSIVE ScanLoop(_, _, _, _, _)
ScanLoop(strategy, query_lower_stripped, results, i, best) ==
    IF i > Len(results) THEN best
    ELSE IF results[i].kind # "object" THEN [best EXCEPT !.exc = "AttributeError"]
    ELSE LET res == results[i]
             candidate_title == CandidateTitle(strategy, res)
             candidate_lower_stripped == Lower(Strip(candidate_title))
             ratio == Ratio(query_lower_stripped, candidate_lower_stripped)
         IN  IF candidate_title = <<>>
             THEN ScanLoop(strategy, query_lower_stripped, results, i + 1, best)
             ELSE IF query_lower_stripped = candidate_lower_stripped
             THEN ExactMatch(res, best)
             ELSE IF Greater(ratio, best.ratio)
             THEN ScanLoop(strategy, query_lower_stripped, results, i + 1,
                           [match |-> res, ratio |-> ratio, exc |-> "none"])
             ELSE ScanLoop(strategy, query_lower_stripped, results, i + 1, best)

\* the try block of a strategy: the exception it raises, or what it returns
SearchBody(strategy, query, response) ==
    LET results == Results(strategy, response)
        best == ScanLoop(strategy, Lower(Strip(query)), results, 1, NoBest)
    IN  IF TransportOutcome(response.kind) # "none"
        THEN [exc |-> TransportOutcome(response.kind), found |-> NoCandidate]
        ELSE IF response.kind = "not_object"
        THEN [exc |-> "AttributeError", found |-> NoCandidate]
        ELSE IF results = <<>> THEN [exc |-> "none", found |-> NoCandidate]
        ELSE IF best.exc # "none" THEN [exc |-> best.exc, found |-> NoCandidate]
        ELSE IF best.match # NoCandidate /\ AtLeastThreshold(best.ratio)
        THEN [exc |-> "none", found |-> best.match]
        ELSE [exc |-> "none", found |-> NoCandidate]

SearchHandlers == {"Timeout", "RequestException", "JSONDecodeError", "Exception"}

\* the except clauses log and fall through to return None
SearchHandled(body) ==
    IF body.exc = "none" THEN [raised |-> FALSE, found |-> body.found]
    ELSE IF \E h \in SearchHandlers : body.exc \in Subclasses(h)
    THEN [raised |-> FALSE, found |-> NoCandidate]
    ELSE [raised |-> TRUE, found |-> NoCandidate]

search_byterm(query, response) == SearchHandled(SearchBody("byterm", query, response))

search_bytitle(query, response) == SearchHandled(SearchBody("bytitle", query, response))

StartSearch(pc0, query) ==
    [pc |-> pc0, query |-> query, calls |-> <<>>, strategy |-> "none",
     response |-> SearchResponse("none", <<>>, <<>>), found |-> NoCandidate,
     raised |-> FALSE, term_found |-> NoCandidate, result |-> NoCandidate]

NoSearch == StartSearch("idle", <<>>)

\* mutant: the fallback is taken whatever search_byterm returned
FallsBackAlways(result) == TRUE

\* if not result
FallsBack(result) == result = NoCandidate

\* search_podcast_combined up to the answer of search/byterm: the candidate
\* is returned, or the request to search/bytitle is issued
SearchByTerm ==
    /\ search.pc = "start"
    /\ \E response \in TermResponses :
         LET out == search_byterm(search.query, response)
         IN  search' = [search EXCEPT
                 !.pc = IF out.raised THEN "raised"
                        ELSE IF FallsBack(out.found) THEN "bytitle" ELSE "returned",
                 !.calls = Append(@, "byterm"),
                 !.strategy = "byterm",
                 !.response = response,
                 !.found = out.found,
                 !.raised = out.raised,
                 !.term_found = out.found,
                 !.result = IF FallsBack(out.found) THEN NoCandidate ELSE out.found]
    /\ UNCHANGED <<chartVars, detailVars, fetchVars, sheetVars, episodeVars, requestVars>>

\* search_podcast_combined from the answer of search/bytitle to its return
SearchByTitle ==
    /\ search.pc = "bytitle"
    /\ \E response \in TitleResponses :
         LET out == search_bytitle(search.query, response)
         IN  search' = [search EXCEPT
                 !.pc = IF out.raised THEN "raised" ELSE "returned",
                 !.calls = Append(@, "bytitle"),
                 !.strategy = "bytitle",
                 !.response = response,
                 !.found = out.found,
                 !.raised = out.raised,
                 !.result = out.found]
    /\ UNCHANGED <<chartVars, detailVars, fetchVars, sheetVars, episodeVars, requestVars>>


(***************************************************************************)
(* Specifications.  Spec is the store under every component that writes    *)
(* it, for at most MaxRuns component runs; SpecChart is the chart store    *)
(* writers alone; SpecDetail is the detail store writer alone, started on  *)
(* chart contents the writers produce.                                     *)
(***************************************************************************)
NoRun ==
    /\ saveResult = NoSave
    /\ podcasts = {}
    /\ categories = {}
    /\ podcastCategories = {}
    /\ pc = "idle"
    /\ pending = {}
    /\ lastIter = NoIter
    /\ runLog = NoLog
    /\ startup = KeysSet
    /\ runs = 0

EmptyStore ==
    /\ top100 = {}
    /\ NoRun

\* no publisher run yet; every configured tab exists and holds old data
NoSheetRun ==
    /\ episodeCall = NoEpisodeCall
    /\ detailCall = NoDetailCall
    /\ publish = NoPublish
    /\ tabs = [name \in WorksheetNames |-> "old"]
    /\ viewCalls = NoViewCalls

Init ==
    /\ EmptyStore
    /\ fetchOut = NoFetch
    /\ search = NoSearch
    /\ NoSheetRun

Counted(Run) == runs < MaxRuns /\ runs' = runs + 1 /\ Run
Uncounted(Step) == Step /\ UNCHANGED runs

Next ==
    \/ Counted(AppleSave)
    \/ Counted(SpotifySave)
    \/ Counted(UpdateBegin)
    \/ Uncounted(ProcessTitle)

Spec == Init /\ [][Next]_vars

NextChart ==
    \/ Uncounted(AppleSave)
    \/ Uncounted(SpotifySave)

SpecChart == Init /\ [][NextChart]_vars

NextFetch ==
    \/ Uncounted(AppleFetch)
    \/ Uncounted(SpotifyFetch)

InitFetch ==
    /\ EmptyStore
    /\ fetchOut \in FetchCalls
    /\ search = NoSearch
    /\ NoSheetRun

SpecFetch == InitFetch /\ [][NextFetch]_vars

\* chart contents: one title on both platforms; two titles, a row without a
\* title and a row with an empty one
ChartContents ==
    { {},
      {ChartRecord(PLATFORM_NAME_APPLE, 1, "t1"), ChartRecord(PLATFORM_NAME_SPOTIFY, 1, "t1")},
      {ChartRecord(PLATFORM_NAME_APPLE, 1, "t1"), ChartRecord(PLATFORM_NAME_SPOTIFY, 1, "t2"),
       ChartRecord(PLATFORM_NAME_APPLE, 2, NULL), ChartRecord(PLATFORM_NAME_SPOTIFY, 2, "")} }

NextSearch ==
    \/ Uncounted(SearchByTerm)
    \/ Uncounted(SearchByTitle)

InitSearch ==
    /\ EmptyStore
    /\ fetchOut = NoFetch
    /\ search \in {StartSearch("start", query) : query \in Queries}
    /\ NoSheetRun

SpecSearch == InitSearch /\ [][NextSearch]_vars

InitDetail ==
    /\ top100 \in ChartContents
    /\ NoRun
    /\ fetchOut = NoFetch
    /\ search = NoSearch
    /\ NoSheetRun

NextDetail ==
    \/ Uncounted(UpdateBegin)
    \/ Uncounted(ProcessTitle)

\* one call of get_latest_episode_info on any response
InitEpisode ==
    /\ EmptyStore
    /\ fetchOut = NoFetch
    /\ search = NoSearch
    /\ publish = NoPublish
    /\ tabs = [name \in WorksheetNames |-> "old"]
    /\ viewCalls = NoViewCalls
    /\ episodeCall \in EpisodeCalls
    /\ detailCall = NoDetailCall

NextEpisode == Uncounted(EpisodeFetch)

SpecEpisode == InitEpisode /\ [][NextEpisode]_vars

\* the publisher on a spreadsheet any of whose tabs may be missing
InitSheet ==
    /\ EmptyStore
    /\ fetchOut = NoFetch
    /\ search = NoSearch
    /\ publish = NoPublish
    /\ tabs \in [WorksheetNames -> {"absent", "old"}]
    /\ viewCalls = NoViewCalls
    /\ episodeCall = NoEpisodeCall
    /\ detailCall = NoDetailCall

NextSheet ==
    \/ Uncounted(PublishBegin)
    \/ Uncounted(PublishView)

SpecSheet == InitSheet /\ [][NextSheet]_vars

\* the detail component started under any environment, on a chart of one title
InitStartup ==
    /\ top100 = {ChartRecord(PLATFORM_NAME_APPLE, 1, "t1"),
                 ChartRecord(PLATFORM_NAME_SPOTIFY, 1, "t1")}
    /\ saveResult = NoSave
    /\ podcasts = {}
    /\ categories = {}
    /\ podcastCategories = {}
    /\ pc = "idle"
    /\ pending = {}
    /\ lastIter = NoIter
    /\ runLog = NoLog
    /\ runs = 0
    /\ \E env \in Environs :
         startup = [PODCASTINDEX_API_KEY |-> env.PODCASTINDEX_API_KEY,
                    PODCASTINDEX_API_SECRET |-> env.PODCASTINDEX_API_SECRET,
                    status |-> "none"]
    /\ fetchOut = NoFetch
    /\ search = NoSearch
    /\ NoSheetRun

NextStartup ==
    \/ Uncounted(SetEnviron)
    \/ Uncounted(StartupFails)
    \/ Uncounted(UpdateBegin)
    \/ Uncounted(ProcessTitle)

SpecStartup == InitStartup /\ [][NextStartup]_vars

\* the title loop with the detail requests spelled out
NextRequests ==
    \/ Uncounted(UpdateBegin)
    \/ Uncounted(ProcessCandidate)

SpecRequests == InitDetail /\ [][NextRequests]_vars

SpecDetail == InitDetail /\ [][NextDetail]_vars

(***************************************************************************)
(* Properties of the chart store writers.                                  *)
(***************************************************************************)
UniqueTriples == \A a, b \in top100 : SameTriple(a, b) => a = b

\* C1: Top100Lists holds at most one row per (platform, rank, date); every
\* call inserts exactly the rows it counts in insert_count, and every record
\* with the required keys that adds no row, its triple being present
\* already, is counted in ignore_count.
C1_OneRowPerTriple ==
    [][/\ UniqueTriples'
       /\ Cardinality(top100') = Cardinality(top100) + saveResult'.insert_count
       /\ saveResult'.status = "returned" =>
              saveResult'.insert_count + saveResult'.ignore_count = saveResult'.with_keys
      ]_chartVars

\* a call that ignored a record whose triple was present already
C1_Witness ==
    /\ saveResult.status = "returned"
    /\ saveResult.ignore_count > 0
    /\ saveResult.insert_count > 0

\* C2: whatever the position of a record lacking a required key, no exception
\* escapes save_chart_data_to_db and every record of the batch that has the
\* required keys is inserted or ignored as a duplicate.
C2_DefectiveRecordSkipped ==
    saveResult.writer # "none" =>
        /\ saveResult.status = "returned"
        /\ saveResult.insert_count + saveResult.ignore_count = saveResult.with_keys

\* C6: a Top100Lists row, once written, is never changed or deleted by a
\* later chart write or by a run of update_all_podcast_details.
C6_RowsImmutable == [][\A row \in top100 : row \in top100']_vars

\* a second record for a triple was ignored, and a later run of
\* update_all_podcast_details committed a podcast
C6_Witness ==
    /\ saveResult.ignore_count > 0
    /\ lastIter.outcome = "committed"
    /\ top100 # {}

(***************************************************************************)
(* Properties of the chart fetchers.                                       *)
(***************************************************************************)
Min(a, b) == IF a < b THEN a ELSE b

Ranks(records) == [k \in 1..Len(records) |-> records[k].rank]

\* the items the loop visits, and the positions of the dicts among them
Visited == Take(fetchOut.items, fetchOut.limit)
DictPositions == {i \in 1..Len(Visited) : Visited[i].isdict}

\* a response that passes the top-level structure checks
PassesTopLevel == fetchOut.done /\ fetchOut.kind = "chart"

\* an item on which the loop raises: a dict whose showUri is a number other than 0
ItemRaises ==
    /\ fetchOut.fetcher = "spotify"
    /\ \E i \in DictPositions : ~Visited[i].showUri.isstr

\* C3 as stated: the ranks are exactly 1..min(len(results), limit).
C3_RanksConsecutive ==
    PassesTopLevel =>
        Ranks(fetchOut.records) = [k \in 1..Min(Len(fetchOut.items), fetchOut.limit) |-> k]

\* C3 amended: when no item makes the fetcher raise, the ranks are, in response
\* order, the 1-based positions of the dict items among the first
\* min(len(results), limit) items; an item that is not a dict leaves a gap.
C3_RanksArePositions ==
    (PassesTopLevel /\ ~ItemRaises) =>
        /\ Len(fetchOut.records) = Cardinality(DictPositions)
        /\ {fetchOut.records[k].rank : k \in 1..Len(fetchOut.records)} = DictPositions
        /\ \A k \in 1..(Len(fetchOut.records) - 1) :
               fetchOut.records[k].rank < fetchOut.records[k + 1].rank
        /\ Len(Visited) = Min(Len(fetchOut.items), fetchOut.limit)

\* a chart cut at the limit whose first item is not a dict: the ranks start at 2
C3_Witness ==
    /\ PassesTopLevel
    /\ fetchOut.limit < Len(fetchOut.items)
    /\ fetchOut.records # <<>>
    /\ fetchOut.records[1].rank = 2

\* C4 as stated: a fetch returns the empty list or a record for every one of
\* the first min(len(results), limit) items.
C4_AllOrNothing ==
    fetchOut.done =>
        \/ fetchOut.records = <<>>
        \/ Len(fetchOut.records) = Min(Len(fetchOut.items), fetchOut.limit)

\* C4 amended: a transport error, a non-2xx status, malformed JSON, a missing
\* top-level structure or an item that raises yields the empty list and no
\* exception; an item that is not a dict is passed over and the others among
\* the first min(len(results), limit) are all returned.
C4_EmptyOnFailure ==
    fetchOut.done =>
        /\ ~fetchOut.raised
        /\ (fetchOut.kind # "chart" \/ ItemRaises) => fetchOut.records = <<>>
        /\ (fetchOut.kind = "chart" /\ ~ItemRaises) =>
               Len(fetchOut.records) = Cardinality(DictPositions)

\* a list that covers only some of the visited items
C4_Witness ==
    /\ fetchOut.done
    /\ fetchOut.records # <<>>
    /\ Len(fetchOut.records) < Len(Visited)

TopLevelMissing ==
    {"json_not_object", "no_feed", "feed_not_object", "no_results", "results_not_list",
     "not_list"}

\* C5: a response without the expected top-level structure yields the empty
\* list and no exception.
C5_MissingStructureEmpty ==
    (fetchOut.done /\ fetchOut.kind \in TopLevelMissing) =>
        /\ ~fetchOut.raised
        /\ fetchOut.records = <<>>

\* the body without a "feed" that is a JSON array: data.get raises, [] is returned
C5_Witness ==
    /\ fetchOut.done
    /\ fetchOut.kind = "json_not_object"
    /\ ~fetchOut.raised
    /\ fetchOut.records = <<>>

(***************************************************************************)
(* Properties of the title resolver.  search.strategy, search.response and *)
(* search.found are the last request made and what its strategy returned.  *)
(***************************************************************************)
Scanned == Results(search.strategy, search.response)

Answered == search.strategy # "none" /\ search.response.kind = "ok"

Normalized(text) == Lower(Strip(text))

\* the title the strategy compares for item i, trimmed and lower-cased
Compared(i) == Normalized(CandidateTitle(search.strategy, Scanned[i]))

\* the items that take part in the comparison: objects with a title
Titled == {i \in 1..Len(Scanned) : CandidateTitle(search.strategy, Scanned[i]) # <<>>}

AllObjects == \A i \in 1..Len(Scanned) : Scanned[i].kind = "object"

ExactAt(i) ==
    /\ Scanned[i].kind = "object"
    /\ i \in Titled
    /\ Compared(i) = Normalized(search.query)

RatioAt(i) == Ratio(Normalized(search.query), Compared(i))

Beats(r1, r2) == r1.m * r2.t > r2.m * r1.t

RatioAtLeast90(r) == 10 * 2 * r.m >= 9 * r.t

\* C7 as stated: when the list holds a candidate whose title equals the query
\* after trimming and lower-casing, a candidate with such a title is returned.
C7_ExactTitleReturned ==
    (Answered /\ AllObjects) =>
        ((\E i \in 1..Len(Scanned) :
             Scanned[i].title # <<>> /\ Normalized(Scanned[i].title) = Normalized(search.query))
         => /\ search.found # NoCandidate
            /\ Normalized(search.found.title) = Normalized(search.query))

\* C7 amended: the title compared is title_original when it is not empty and
\* title otherwise in search_byterm, title in search_bytitle; the first
\* candidate whose compared title equals the query after trimming and
\* lower-casing is returned when only objects precede it, whatever the ratios
\* of the candidates before and after it.
C7_FirstExactMatchReturned ==
    Answered =>
        \A i \in 1..Len(Scanned) :
            (ExactAt(i) /\ \A j \in 1..(i - 1) : Scanned[j].kind = "object" /\ ~ExactAt(j))
            => search.found = Scanned[i]

\* an exact match returned from the second place, behind a candidate whose
\* ratio reaches the threshold
C7_Witness ==
    /\ Answered
    /\ Len(Scanned) = 2
    /\ 1 \in Titled
    /\ ~ExactAt(1)
    /\ RatioAtLeast90(RatioAt(1))
    /\ ExactAt(2)
    /\ search.found = Scanned[2]

\* the earliest of the candidates with the greatest ratio
Best ==
    {i \in Titled :
        \A j \in Titled :
            /\ ~Beats(RatioAt(j), RatioAt(i))
            /\ j < i => Beats(RatioAt(i), RatioAt(j))}

\* C8: for a list of candidate objects none of which is an exact match, a
\* strategy returns the candidate of greatest ratio, the earliest of equals,
\* when that ratio is at least 0.90 and returns none otherwise; a candidate
\* returned by search_podcast_combined is an exact match or has a ratio of at
\* least 0.90.
C8_BestAboveThreshold ==
    /\ (Answered /\ AllObjects /\ \A i \in 1..Len(Scanned) : ~ExactAt(i)) =>
           IF \E i \in Titled : RatioAtLeast90(RatioAt(i))
           THEN \E i \in Best : search.found = Scanned[i]
           ELSE search.found = NoCandidate
    /\ (search.pc = "returned" /\ search.result # NoCandidate) =>
           \E i \in Titled :
               /\ search.result = Scanned[i]
               /\ ExactAt(i) \/ RatioAtLeast90(RatioAt(i))

\* two different candidates of equal ratio above the threshold: the first is returned
C8_Witness ==
    /\ Answered
    /\ Len(Scanned) = 2
    /\ Titled = {1, 2}
    /\ ~ExactAt(1) /\ ~ExactAt(2)
    /\ Scanned[1] # Scanned[2]
    /\ RatioAt(1) = RatioAt(2)
    /\ RatioAtLeast90(RatioAt(1))
    /\ search.found = Scanned[1]

\* C9: search/bytitle is requested after search/byterm and only when
\* search_byterm returned none; a candidate search_byterm accepts is the
\* result; the result is none exactly when both strategies returned none.
C9_FallbackOnlyAfterNone ==
    /\ search.calls \in {<<>>, <<"byterm">>, <<"byterm", "bytitle">>}
    /\ search.pc = "bytitle" => search.calls = <<"byterm">> /\ search.term_found = NoCandidate
    /\ search.pc = "returned" =>
           /\ search.calls = <<"byterm", "bytitle">> <=> search.term_found = NoCandidate
           /\ search.term_found # NoCandidate => search.result = search.term_found
           /\ search.result = NoCandidate <=>
                  (search.term_found = NoCandidate /\ search.found = NoCandidate)

\* search_byterm returned none and the fallback found the candidate
C9_Witness ==
    /\ search.pc = "returned"
    /\ search.calls = <<"byterm", "bytitle">>
    /\ search.term_found = NoCandidate
    /\ search.result # NoCandidate

(***************************************************************************)
(* Properties of the detail store writer.                                  *)
(***************************************************************************)
\* C10: after a podcast id that already has category links is processed
\* again, its links are exactly the well-formed entries of the new map.
C10_LinksReplaced ==
    (lastIter.outcome = "committed" /\ lastIter.had_links) =>
        LinkedCategories(podcastCategories, lastIter.podcast_id) = lastIter.new_cats

\* C11: in every committed state every PodcastCategories row references a
\* row of Podcasts and a row of Categories, also when a category name comes
\* back under another id and when a Podcasts row is replaced.
C11_LinksReferenceRows ==
    \A l \in podcastCategories :
        /\ \E p \in podcasts : p.podcast_id = l.podcast_id
        /\ \E c \in categories : c.category_id = l.category_id

\* a podcast committed with an entry whose name Categories holds under
\* another id, while links of the store stand
C11_Witness ==
    /\ lastIter.outcome = "committed"
    /\ \E id \in lastIter.new_cats : \A c \in categories : c.category_id # id
    /\ podcastCategories # {}

\* every write of the last podcast is in the store: its row and a link for
\* every well-formed entry of its category map
AllWritten ==
    /\ \E p \in podcasts : p.podcast_id = lastIter.podcast_id
    /\ LinkedCategories(podcastCategories, lastIter.podcast_id) = lastIter.new_cats

\* an iteration that reached the store writes has just ended
WroteOrFailed ==
    /\ runLog' # runLog
    /\ lastIter'.outcome \in {"committed", "rolled_back"}

\* C12: the store writes of one podcast (its Podcasts row, the removal of its
\* old links, the new links) are atomic: after its title is processed either
\* all of them are committed, or none is, the error counter went up and the
\* rows of earlier podcasts are as they were.
C12_PodcastWritesAtomic ==
    [][WroteOrFailed =>
          \/ AllWritten' /\ lastIter'.update_errors = 0
          \/ /\ UNCHANGED <<podcasts, categories, podcastCategories>>
             /\ lastIter'.update_errors = 1]_vars

(***************************************************************************)
(* Properties of the title loop.                                           *)
(***************************************************************************)
ProcessedTitles == {runLog.processed[i].title : i \in 1..Len(runLog.processed)}

TakenOnce ==
    \A i, j \in 1..Len(runLog.processed) :
        runLog.processed[i].title = runLog.processed[j].title => i = j

\* C13: in one run every distinct non-null, non-empty title of Top100Lists
\* is taken by the loop exactly once, and the run reaches the last title and
\* returns, also when earlier titles find no candidate, no details, or fail
\* their store writes.  Termination is stated by a measure: inside the loop
\* an iteration can always run, every iteration leaves fewer titles, and the
\* function returns exactly when none is left.
C13_EveryTitleOnceAndDone ==
    /\ [](runLog = NoLog \/ runLog.titles = SelectTitles(top100))
    /\ [](TakenOnce /\ ProcessedTitles \subseteq runLog.titles)
    /\ [](pc = "idle" => ProcessedTitles = runLog.titles)
    /\ [](pc = "loop" => ENABLED Uncounted(ProcessTitle))
    /\ [][pc = "loop" =>
             /\ Cardinality(pending') < Cardinality(pending)
             /\ pc' = "idle" <=> pending' = {}]_vars

\* a run that ended after a title without candidate or details, or with a
\* failed write, and then a committed title
C13_Witness ==
    /\ pc = "idle"
    /\ Len(runLog.processed) = 2
    /\ runLog.processed[1].outcome \in {"no_candidate", "no_details", "rolled_back"}
    /\ runLog.processed[2].outcome = "committed"

\* C14: between the API calls made for one title and the first API call made
\* for the next title a pause always occurs, on every path of the iteration:
\* no candidate, no details, full details without an id, write committed,
\* write rolled back.
C14_PauseBeforeNextTitle ==
    (pc = "loop" /\ lastIter.outcome # "none") => lastIter.sleep > 0

\* C15: Podcasts holds exactly one row per podcast id that the running (or
\* last) update resolved, fetched and committed, also when several titles
\* resolve to one id, and no row or category link of an earlier run is left
\* unless this run wrote it again.
C15_OnlyRowsOfThisRun ==
    /\ {p.podcast_id : p \in podcasts} = runLog.committed
    /\ \A id \in runLog.committed :
           Cardinality({p \in podcasts : p.podcast_id = id}) = 1
    /\ \A l \in podcastCategories : l.podcast_id \in runLog.committed

\* a finished run whose two titles were committed under one podcast id
C15_Witness ==
    /\ pc = "idle"
    /\ Len(runLog.processed) = 2
    /\ \A i \in 1..2 : runLog.processed[i].outcome = "committed"
    /\ Cardinality(runLog.committed) = 1
    /\ podcastCategories # {}

(***************************************************************************)
(* Properties of the sheet publisher.                                      *)
(***************************************************************************)
\* C16: for every position i and every kind of failure while view i is
\* handled (query failure such as a missing view, clear failure, write or API
\* failure, serialization failure), every configured view after i is still
\* queried, and cleared and written where its tab exists and nothing fails.
C16_LaterViewsStillHandled ==
    (publish.pc = "done" /\ publish.ends # "setup_error") =>
        /\ Len(publish.log) = Len(QUERY_CONFIGS)
        /\ \A j \in 1..Len(publish.log) :
               LET e == publish.log[j]
               IN  /\ e.queried
                   /\ (e.fault.stage = "none" /\ tabs[e.worksheet_name] # "absent")
                          => (e.cleared /\ e.written)

\* the view just handled: its query succeeded and its tab does not exist
MissingTabHandled ==
    /\ publish.pc = "loop"
    /\ publish' # publish
    /\ QUERY_CONFIGS[publish.i].worksheet_name \in DOMAIN tabs
    /\ tabs[QUERY_CONFIGS[publish.i].worksheet_name] = "absent"
    /\ publish'.log[publish.i].fault.stage # "query"

KeyAbsent ==
    \/ startup.PODCASTINDEX_API_KEY \in {NULL, ""}
    \/ startup.PODCASTINDEX_API_SECRET \in {NULL, ""}

\* C18: when the API key or the API secret is absent the detail component
\* ends with a failure status before it modifies the store (before the table
\* drops) and before any API request.
C18_NoKeysNoRun ==
    [][KeyAbsent =>
          /\ UNCHANGED <<top100, podcasts, categories, podcastCategories>>
          /\ UNCHANGED <<pc, pending, lastIter, runLog>>
          /\ startup'.status \in {"none", "exit_1"}]_vars

\* the component exited with status 1 on a store that holds rows and links
C18_Witness ==
    /\ KeyAbsent
    /\ startup.status = "exit_1"
    /\ podcasts # {}
    /\ podcastCategories # {}

(***************************************************************************)
(* Properties of the episode fetch.                                        *)
(***************************************************************************)
\* the positions of the episodes whose duration is a positive integer
PositiveAt(items) ==
    {i \in 1..Len(items) : items[i].duration.kind = "int" /\ items[i].duration.value >= 1}

RECURSIVE SumAt(_, _)
SumAt(items, at) ==
    IF at = {} THEN 0
    ELSE LET i == CHOOSE x \in at : TRUE
         IN  items[i].duration.value + SumAt(items, at \ {i})

\* C19: the average get_latest_episode_info returns is the arithmetic mean,
\* in whole seconds, of exactly the durations of the fetched episodes that
\* are positive integers (zero, negative, missing and non-integer durations
\* are left out), and none when no episode has a positive integer duration.
C19_MeanOfPositiveDurations ==
    (episodeCall.done /\ episodeCall.response.kind = "ok") =>
        LET items == episodeCall.response.items
            at == PositiveAt(items)
            n == Cardinality(at)
            average == episodeCall.info[1]
        IN  IF n = 0 THEN average = NoInt
            ELSE /\ average * n <= SumAt(items, at)
                 /\ SumAt(items, at) < (average + 1) * n

\* durations 100, 0, 200 gave 150
C19_Witness ==
    /\ episodeCall.done
    /\ Len(episodeCall.response.items) = 3
    /\ episodeCall.response.items[1].duration = [kind |-> "int", value |-> 100]
    /\ episodeCall.response.items[2].duration = [kind |-> "int", value |-> 0]
    /\ episodeCall.response.items[3].duration = [kind |-> "int", value |-> 200]
    /\ episodeCall.info[1] = 150

Requested(endpoint) ==
    \E i \in 1..Len(detailCall.calls) : detailCall.calls[i] = endpoint

HasId == detailCall.candidate.id # NoInt

HasUrl == detailCall.candidate.url # NULL \/ detailCall.candidate.originalUrl # NULL

\* every request that was made returned nothing
NothingFetched ==
    /\ Requested("podcasts/byfeedid") => detailCall.by_id = NoFeed
    /\ Requested("podcasts/byfeedurl") => detailCall.by_url = NoFeed

\* C21: for a resolved candidate the details are requested by id first when
\* the candidate has an id; the request by feed url, with the candidate's url
\* or else its originalUrl, is made exactly when the request by id returned
\* nothing or the id is absent (and a url is there to fall back on), never
\* after a successful request by id; when the requests yield nothing, or no
\* url is available, nothing is written to the store for that title.
C21_ByIdThenByUrl ==
    /\ [](detailCall.title # NULL =>
            /\ Requested("podcasts/byfeedid") <=> HasId
            /\ Requested("podcasts/byfeedid") => detailCall.calls[1] = "podcasts/byfeedid"
            /\ Len(detailCall.calls) <= 2
            /\ Requested("podcasts/byfeedurl") <=>
                   (HasUrl /\ (~HasId \/ detailCall.by_id = NoFeed))
            /\ Requested("podcasts/byfeedurl") =>
                   detailCall.url = IF detailCall.candidate.url # NULL
                                    THEN detailCall.candidate.url
                                    ELSE detailCall.candidate.originalUrl)
    /\ [][(pc = "loop" /\ NothingFetched') =>
             /\ UNCHANGED <<podcasts, categories, podcastCategories>>
             /\ lastIter'.outcome = "no_details"]_vars

\* the request by id returned nothing, the request by originalUrl returned
\* the feed, and the podcast was committed
C21_Witness ==
    /\ detailCall.calls = <<"podcasts/byfeedid", "podcasts/byfeedurl">>
    /\ detailCall.url = "o"
    /\ detailCall.by_id = NoFeed
    /\ lastIter.outcome = "committed"
    /\ lastIter.title = detailCall.title
(***************************************************************************)
(* Malformed category ids.                                                 *)
(***************************************************************************)
\* an iteration committed the writes of a podcast whose category map holds
\* an entry with a key that is not an integer
CommittedWithMalformed ==
    /\ runLog' # runLog
    /\ lastIter'.outcome = "committed"
    /\ lastIter'.malformed > 0

\* no row of Categories or PodcastCategories comes from a malformed entry:
\* every new category row and every link of the podcast carries the id of a
\* well-formed entry
MalformedLeavesNoRow ==
    /\ \A c \in categories' \ categories : c.category_id \in lastIter'.new_cats
    /\ LinkedCategories(podcastCategories', lastIter'.podcast_id)
           \subseteq lastIter'.new_cats

\* C22: a category map entry whose id string is not an integer produces no
\* Categories row and no PodcastCategories row, while the Podcasts row and
\* the links of every well-formed entry of the same map are written and
\* committed.
C22_MalformedEntrySkipped ==
    [][CommittedWithMalformed =>
          /\ MalformedLeavesNoRow
          /\ \E p \in podcasts' : p.podcast_id = lastIter'.podcast_id
          /\ LinkedCategories(podcastCategories', lastIter'.podcast_id)
                 = lastIter'.new_cats]_vars

(***************************************************************************)
(* The Categories table.                                                   *)
(***************************************************************************)
\* rows of Categories that share an id or a name with the row c
Conflicting(rows, c) ==
    {e \in rows : e.category_id = c.category_id \/ e.category_name = c.category_name}

\* C23: Categories is append-only over any sequence of runs: a row once
\* written is never deleted and its (category_id, category_name) pair never
\* changes; an insert whose category_id or category_name conflicts with an
\* existing row is ignored, so every row a step adds conflicts with no row
\* that was there before, and a step whose entries all conflict leaves the
\* table as it was.
C23_CategoriesAppendOnly ==
    /\ [](\A c \in categories : Conflicting(categories, c) = {c})
    /\ [][/\ categories \subseteq categories'
          /\ \A c \in categories' \ categories : Conflicting(categories, c) = {}
          /\ (\A id \in lastIter'.new_cats : \E e \in categories : e.category_id = id)
                 => categories' = categories]_vars

\* a later run, after the tables of the earlier one were dropped, commits a
\* podcast whose category name is already stored under another id: the insert
\* is ignored and the earlier row is still there
C23_Witness ==
    /\ lastIter.outcome = "committed"
    /\ Len(runLog.processed) = 1
    /\ lastIter.category_link_errors > lastIter.malformed
    /\ \E c \in categories : c.category_id \notin lastIter.new_cats

(***************************************************************************)
(* The order of the publisher's steps for one view.                        *)
(***************************************************************************)
ViewSteps == <<"read_sql_query", "worksheet", "clear", "update">>

\* the positions of the calls of the last view that are op and returned
Succeeded(op) ==
    {k \in 1..Len(viewCalls.calls) : viewCalls.calls[k].op = op /\ viewCalls.calls[k].ok}

\* the positions of the calls of the last view that are op, returned or not
Attempted(op) == {k \in 1..Len(viewCalls.calls) : viewCalls.calls[k].op = op}

ViewTab == QUERY_CONFIGS[viewCalls.i].worksheet_name

\* C24: for each configured view the publisher's steps come in the order
\* query, clear, write.  A tab is cleared only after the query of that view
\* succeeded and the tab was found, so a failed query or a missing tab leaves
\* the previous contents of the tab; every successful clear is followed by
\* exactly one write attempt, to the same tab and before the next view, of the
\* header row plus the data rows, and the header row is sent also when the
\* query returned no rows.
C24_QueryClearWrite ==
    /\ [](viewCalls.i > 0 =>
            LET calls == viewCalls.calls
            IN  /\ Len(calls) \in 1..Len(ViewSteps)
                /\ \A k \in 1..Len(calls) :
                       /\ calls[k].op = ViewSteps[k]
                       /\ k < Len(calls) => calls[k].ok
                       /\ calls[k].on = IF k = 1 THEN QUERY_CONFIGS[viewCalls.i].query
                                        ELSE ViewTab
                /\ Attempted("clear") # {} =>
                       Succeeded("read_sql_query") # {} /\ Succeeded("worksheet") # {}
                /\ Succeeded("clear") = {} => tabs[ViewTab] = viewCalls.before
                /\ Succeeded("clear") # {} =>
                       /\ Cardinality(Attempted("update")) = 1
                       /\ \A c \in Succeeded("clear"), u \in Attempted("update") :
                              /\ u = c + 1
                              /\ calls[u].on = calls[c].on
                              /\ Len(calls[u].values) = viewCalls.rows + 1
                              /\ Head(calls[u].values) = "header"
                              /\ \A r \in 2..Len(calls[u].values) :
                                     calls[u].values[r] = "row")
    /\ [][viewCalls'.i > 0 /\ viewCalls' # viewCalls =>
            \A name \in WorksheetNames :
                tabs'[name] # tabs[name] =>
                    /\ name = QUERY_CONFIGS[viewCalls'.i].worksheet_name
                    /\ \E k \in 1..Len(viewCalls'.calls) :
                           viewCalls'.calls[k].op = "clear" /\ viewCalls'.calls[k].ok]_vars

\* the first view's query failed and its tab kept its contents; the second
\* view returned no rows and its tab was cleared and written with the header
C24_Witness ==
    /\ viewCalls.i = 2
    /\ publish.log[1].fault.stage = "query"
    /\ tabs[publish.log[1].worksheet_name] = "old"
    /\ viewCalls.rows = 0
    /\ Succeeded("clear") # {}
    /\ Succeeded("update") # {}
    /\ tabs[ViewTab] = "written"

(***************************************************************************)
(* Independence of the two chart store writers.                            *)
(***************************************************************************)
\* what one call reports: how it ended and its two counters
Counts(out) ==
    [status |-> out.status, insert_count |-> out.insert_count,
     ignore_count |-> out.ignore_count]

RowsOf(rows, p) == {row \in rows : row.platform = p}

\* the batch saved on the store as it is, and on the rows of its own platform alone
AloneAsTogether(p, records) ==
    LET together == save_chart_data_to_db(top100, records)
        alone == save_chart_data_to_db(RowsOf(top100, p), records)
    IN  /\ Counts(together) = Counts(alone)
        /\ together.rows = alone.rows \cup (top100 \ RowsOf(top100, p))

\* C25: the Apple and the Spotify chart store writers are independent.  On
\* every store the program can reach, for every Apple batch and every Spotify
\* batch, saving Apple then Spotify and saving Spotify then Apple leave the
\* same set of rows, and each batch has the same outcome and the same inserted
\* and ignored counts in both orders; the rows of the other platform never
\* change what a batch inserts or ignores.
C25_WritersIndependent ==
    /\ \A a \in AppleBatches, s \in SpotifyBatches :
           LET a1 == save_chart_data_to_db(top100, a)
               s2 == save_chart_data_to_db(a1.rows, s)
               s1 == save_chart_data_to_db(top100, s)
               a2 == save_chart_data_to_db(s1.rows, a)
           IN  /\ s2.rows = a2.rows
               /\ Counts(a1) = Counts(a2)
               /\ Counts(s1) = Counts(s2)
    /\ \A a \in AppleBatches : AloneAsTogether(PLATFORM_NAME_APPLE, a)
    /\ \A s \in SpotifyBatches : AloneAsTogether(PLATFORM_NAME_SPOTIFY, s)

\* the Spotify writer has just saved a batch with nothing ignored on a store
\* that holds an Apple row of the same rank and date as one of its rows
C25_Witness ==
    /\ saveResult.writer = "spotify"
    /\ saveResult.status = "returned"
    /\ saveResult.insert_count > 0
    /\ saveResult.ignore_count = 0
    /\ \E x \in RowsOf(top100, PLATFORM_NAME_APPLE),
          y \in RowsOf(top100, PLATFORM_NAME_SPOTIFY) :
           x.rank = y.rank /\ x.date = y.date

====
